---------------------------- MODULE Spec2Model ----------------------------
(***************************************************************************)
(* scripts/build_data.py: one batch run reads three source tables,         *)
(* resolves their columns through the alias table, merges them into one    *)
(* article table, adds the per-warehouse stock, carries each center's      *)
(* barcodes forward and rewrites each center's Articulos.csv when its      *)
(* text changed.                                                           *)
(*                                                                         *)
(* Text is a tuple of one-character strings, so that trimming, folding,    *)
(* substring search and number parsing are computed, not assumed.  The     *)
(* letters with diacritics are written "a'" "e'" "i'" "o'" "u'" "u:" "n~"  *)
(* and the ordinal sign "o_".  A missing cell (pandas NaN) is NaN.         *)
(***************************************************************************)
EXTENDS Integers, Sequences, FiniteSets, TLC

\* ------------------------------------------------------------------ bounds
MaxCols == 2

MaxArticles == 2

MaxStockRows == 2

MaxRuns == 2

\* -------------------------------------------------------------------- text
NaN == <<"<NaN>">>

NoCol == <<"<None>">>

WS == {" ", "\t"}

DIGITS == <<"0","1","2","3","4","5","6","7","8","9">>

UPPER == <<"A","B","C","D","E","F","G","H","I","J","K","L","M","N","O","P","Q",
           "R","S","T","U","V","W","X","Y","Z","A'","E'","I'","O'","U'","N~">>

LOWER == <<"a","b","c","d","e","f","g","h","i","j","k","l","m","n","o","p","q",
           "r","s","t","u","v","w","x","y","z","a'","e'","i'","o'","u'","n~">>

\* str.lower(), one character
LowerCh(c) ==
    IF \E i \in DOMAIN UPPER : UPPER[i] = c
    THEN LOWER[CHOOSE i \in DOMAIN UPPER : UPPER[i] = c]
    ELSE c

\* str.lower()
RECURSIVE Lower(_)
Lower(s) == IF s = <<>> THEN <<>> ELSE <<LowerCh(Head(s))>> \o Lower(Tail(s))

RECURSIVE LStrip(_)
LStrip(s) == IF s # <<>> /\ Head(s) \in WS THEN LStrip(Tail(s)) ELSE s

RECURSIVE RStrip(_)
RStrip(s) ==
    IF s # <<>> /\ s[Len(s)] \in WS THEN RStrip(SubSeq(s, 1, Len(s) - 1)) ELSE s

\* str.strip()
PyStrip(s) == RStrip(LStrip(s))

\* str.replace(a, b) for a one-character a and any text b
RECURSIVE Replace(_, _, _)
Replace(s, a, b) ==
    IF s = <<>> THEN <<>>
    ELSE (IF Head(s) = a THEN b ELSE <<Head(s)>>) \o Replace(Tail(s), a, b)

\* " ".join(s.split()): whitespace runs collapse to one space, ends trimmed
RECURSIVE Collapse(_)
Collapse(s) ==
    LET t == LStrip(s) IN
    IF t = <<>> THEN <<>>
    ELSE LET k == CHOOSE n \in 1..Len(t) :
                      /\ \A i \in 1..n : t[i] \notin WS
                      /\ (n = Len(t) \/ t[n + 1] \in WS)
             rest == Collapse(SubSeq(t, k + 1, Len(t)))
         IN  SubSeq(t, 1, k) \o (IF rest = <<>> THEN <<>> ELSE <<" ">> \o rest)

\* w in n (substring)
Contains(w, n) ==
    \E i \in 0..(Len(n) - Len(w)) : SubSeq(n, i + 1, i + Len(w)) = w

\* ------------------------------------------------------------ alias table
KEYS == {"NumeroArticulo", "ReferenciaProveedor", "Descripcion", "CodigoEAN",
         "Precio", "NombreProveedor", "CodigoProveedor", "CodigoAlmacen",
         "EnStock"}

ALIAS_NumeroArticulo ==
    { <<"n","u","m","e","r","o","a","r","t","i","c","u","l","o">>,
      <<"n","u'","m","e","r","o","a","r","t","i'","c","u","l","o">>,
      <<"n","u","m","e","r","o","_","a","r","t","i","c","u","l","o">>,
      <<"a","r","t","i","c","u","l","o">>,
      <<"a","r","t","i'","c","u","l","o">>,
      <<"c","o","d","i","g","o">>,
      <<"c","o'","d","i","g","o">>,
      <<"c","o","d"," ","a","r","t","i","c","u","l","o">>,
      <<"c","o","d","."," ","a","r","t","i","c","u","l","o">>,
      <<"n","o_"," ","a","r","t","i'","c","u","l","o">>,
      <<"n","o_"," ","a","r","t","i","c","u","l","o">> }

ALIAS_ReferenciaProveedor ==
    { <<"r","e","f","e","r","e","n","c","i","a","p","r","o","v","e","e","d","o","r">>,
      <<"r","e","f","p","r","o","v","e","e","d","o","r">>,
      <<"r","e","f","e","r","e","n","c","i","a"," ","p","r","o","v","e","e","d","o","r">>,
      <<"r","e","f","."," ","f","a","b","r","i","c","a","n","t","e">>,
      <<"c","a","t","a","l","o","g","o">>,
      <<"n","o_"," ","c","a","t","a","l","o","g","o">>,
      <<"n","o_"," ","c","a","t","a'","l","o","g","o">>,
      <<"r","e","f","e","r","e","n","c","i","a">>,
      <<"r","e","f"," ","f","a","b","r","i","c","a","n","t","e">> }

ALIAS_Descripcion ==
    { <<"d","e","s","c","r","i","p","c","i","o","n">>,
      <<"d","e","s","c","r","i","p","c","i","o'","n">>,
      <<"d","e","s","c","r","i","p","c","i","o","n"," ","a","r","t","i","c","u","l","o">>,
      <<"d","e","s","c","r","i","p","c","i","o'","n"," ","a","r","t","i'","c","u","l","o">>,
      <<"a","r","t","i","c","u","l","o"," ","d","e","s","c","r","i","p","c","i","o","n">>,
      <<"n","o","m","b","r","e">>,
      <<"n","o","m","b","r","e"," ","a","r","t","i","c","u","l","o">> }

ALIAS_CodigoEAN ==
    { <<"c","o","d","i","g","o","e","a","n">>,
      <<"e","a","n">>,
      <<"c","o","d","i","g","o"," ","e","a","n">>,
      <<"c","o'","d","i","g","o"," ","e","a","n">>,
      <<"c","o","d","."," ","b","a","r","r","a","s">>,
      <<"c","o","d","i","g","o"," ","b","a","r","r","a","s">>,
      <<"c","o'","d","i","g","o"," ","b","a","r","r","a","s">> }

ALIAS_Precio ==
    { <<"1","."," ","l","i","s","t","a"," ","p","r","e","c","i","o"," ","d","e"," ","v","e","n","t","a","s">>,
      <<"p","r","e","c","i","o">>,
      <<"p","v","p">>,
      <<"p","r","e","c","i","o"," ","v","e","n","t","a">>,
      <<"p","r","e","c","i","o"," ","d","e"," ","v","e","n","t","a">> }

ALIAS_NombreProveedor ==
    { <<"n","o","m","b","r","e","p","r","o","v","e","e","d","o","r">>,
      <<"p","r","o","v","e","e","d","o","r">>,
      <<"n","o","m","b","r","e"," ","p","r","o","v","e","e","d","o","r">>,
      <<"r","a","z","o","n"," ","s","o","c","i","a","l"," ","p","r","o","v","e","e","d","o","r">>,
      <<"r","a","z","o'","n"," ","s","o","c","i","a","l"," ","p","r","o","v","e","e","d","o","r">> }

ALIAS_CodigoProveedor ==
    { <<"c","o","d","i","g","o","p","r","o","v","e","e","d","o","r">>,
      <<"c","o","d"," ","p","r","o","v","e","e","d","o","r">>,
      <<"c","o'","d","i","g","o"," ","p","r","o","v","e","e","d","o","r">>,
      <<"i","d"," ","p","r","o","v","e","e","d","o","r">> }

ALIAS_CodigoAlmacen ==
    { <<"c","o","d","i","g","o"," ","a","l","m","a","c","e","n">>,
      <<"a","l","m","a","c","e","n">>,
      <<"a","l","m","a","c","e'","n">>,
      <<"c","o'","d","i","g","o"," ","a","l","m","a","c","e'","n">>,
      <<"c","o","d","."," ","a","l","m","a","c","e'","n">>,
      <<"c","o","d"," ","a","l","m","a","c","e","n">> }

ALIAS_EnStock ==
    { <<"e","n"," ","s","t","o","c","k">>,
      <<"s","t","o","c","k">>,
      <<"e","x","i","s","t","e","n","c","i","a","s">>,
      <<"c","a","n","t","i","d","a","d">>,
      <<"d","i","s","p","o","n","i","b","l","e">>,
      <<"q","t","y">> }

ALIAS(key) ==
    CASE key = "NumeroArticulo"      -> ALIAS_NumeroArticulo
      [] key = "ReferenciaProveedor" -> ALIAS_ReferenciaProveedor
      [] key = "Descripcion"         -> ALIAS_Descripcion
      [] key = "CodigoEAN"           -> ALIAS_CodigoEAN
      [] key = "Precio"              -> ALIAS_Precio
      [] key = "NombreProveedor"     -> ALIAS_NombreProveedor
      [] key = "CodigoProveedor"     -> ALIAS_CodigoProveedor
      [] key = "CodigoAlmacen"       -> ALIAS_CodigoAlmacen
      [] key = "EnStock"             -> ALIAS_EnStock

\* strip(s): the header normalisation
FoldAccents(t) ==
    Replace(Replace(Replace(Replace(Replace(Replace(Replace(t,
        "a'", <<"a">>), "e'", <<"e">>), "i'", <<"i">>), "o'", <<"o">>),
        "u'", <<"u">>), "u:", <<"u">>), "n~", <<"n">>)

strip(s) ==
    LET t1 == PyStrip(Lower(s))
        t2 == FoldAccents(t1)
        t3 == Replace(Replace(Replace(t2, ":", <<>>), ".", <<>>), "-", <<" ">>)
    IN  Collapse(t3)

\* norm of find_col: the normalised form of every header
RECURSIVE NormCols(_)
NormCols(cols) ==
    IF cols = <<>> THEN <<>> ELSE <<strip(Head(cols))>> \o NormCols(Tail(cols))

\* the two passes of find_col over the headers and their normalised forms
FindIn(cols, norm, key) ==
    LET wants == ALIAS(key)
        exact == {i \in DOMAIN cols : norm[i] \in wants}
        sub   == {i \in DOMAIN cols : \E w \in wants : Contains(w, norm[i])}
        First(S) == CHOOSE i \in S : \A j \in S : i <= j
    IN  IF exact # {} THEN cols[First(exact)]
        ELSE IF sub # {} THEN cols[First(sub)]
        ELSE NoCol

\* find_col(df, target_key) over the table's header row
find_col(cols, key) == FindIn(cols, NormCols(cols), key)

\* ----------------------------------------------------------------- numbers
IsDigit(c) == \E i \in DOMAIN DIGITS : DIGITS[i] = c

DigitVal(c) == (CHOOSE i \in DOMAIN DIGITS : DIGITS[i] = c) - 1

RECURSIVE DigitsVal(_)
DigitsVal(s) ==
    IF s = <<>> THEN 0
    ELSE 10 * DigitsVal(SubSeq(s, 1, Len(s) - 1)) + DigitVal(s[Len(s)])

RECURSIVE Pow10(_)
Pow10(k) == IF k = 0 THEN 1 ELSE 10 * Pow10(k - 1)

\* the text after an optional sign
Unsigned(s) == IF s # <<>> /\ Head(s) \in {"+", "-"} THEN Tail(s) ELSE s

\* float(s) succeeds: [sign] digits [. digits] or [sign] . digits
\* (the cells of the model carry no exponent, "inf" or underscore)
FloatOk(s) ==
    LET b == Unsigned(s) IN
    /\ b # <<>>
    /\ \A i \in DOMAIN b : IsDigit(b[i]) \/ b[i] = "."
    /\ Cardinality({i \in DOMAIN b : b[i] = "."}) <= 1
    /\ \E i \in DOMAIN b : IsDigit(b[i])

\* int(round(float(s))) for a text FloatOk accepts: round half to even
RoundFloat(s) ==
    LET b    == Unsigned(s)
        dots == {i \in DOMAIN b : b[i] = "."}
        d    == IF dots = {} THEN Len(b) + 1 ELSE CHOOSE i \in dots : TRUE
        ip   == DigitsVal(SubSeq(b, 1, d - 1))
        fr   == SubSeq(b, d + 1, Len(b))
        num  == DigitsVal(fr)
        den  == Pow10(Len(fr))
        mag  == IF 2 * num < den THEN ip
                ELSE IF 2 * num > den THEN ip + 1
                ELSE IF ip % 2 = 0 THEN ip ELSE ip + 1
    IN  IF s # <<>> /\ Head(s) = "-" THEN 0 - mag ELSE mag

NumChar(c) == IsDigit(c) \/ c \in {".", "-"}

\* to_int(x) for a cell read with dtype=str: a text or NaN
to_int(x) ==
    IF x = NaN THEN 0
    ELSE LET s == Replace(PyStrip(x), ",", <<".">>) IN
         IF s = <<>> \/ Lower(s) = <<"n","a","n">> THEN 0
         ELSE IF FloatOk(s) THEN RoundFloat(s)
         ELSE LET num == SelectSeq(s, NumChar) IN
              IF FloatOk(num) THEN RoundFloat(num) ELSE 0

\* str(n) of an integer
RECURSIVE NatStr(_)
NatStr(n) ==
    IF n < 10 THEN <<DIGITS[n + 1]>> ELSE NatStr(n \div 10) \o <<DIGITS[(n % 10) + 1]>>

IntStr(n) == IF n < 0 THEN <<"-">> \o NatStr(0 - n) ELSE NatStr(n)

\* str(v) of a float64 holding a whole number, as pandas holds a merged column
FloatStr(n) == IntStr(n) \o <<".", "0">>

\* ------------------------------------------------------------------ tables
\* A source table as read_table returns it (every cell a text or NaN), or the
\* failure of every reader.
Table(cols, rows) == [ok |-> TRUE, cols |-> cols, rows |-> rows]

Unreadable == [ok |-> FALSE, cols |-> <<>>, rows |-> <<>>]

\* normalize_cols(df): the header row, each header stripped
RECURSIVE normalize_cols(_)
normalize_cols(cols) ==
    IF cols = <<>> THEN <<>>
    ELSE <<PyStrip(Head(cols))>> \o normalize_cols(Tail(cols))

\* position of the column named name, 0 when the table has none (KeyError)
ColIdx(cols, name) ==
    IF \E i \in DOMAIN cols : cols[i] = name
    THEN CHOOSE i \in DOMAIN cols : cols[i] = name /\ \A j \in 1..(i - 1) : cols[j] # name
    ELSE 0

\* astype(str) / str(x): NaN becomes the text "nan"
AsStr(cell) == IF cell = NaN THEN <<"n","a","n">> ELSE cell

\* .astype(str).str.strip()
StrStrip(cell) == PyStrip(AsStr(cell))

\* pandas.read_csv turns an empty field and the default na_values into NaN,
\* also under dtype=str
NA_VALUES == {<<>>, <<"n","a","n">>, <<"N","a","N">>, <<"N","A">>, <<"N","/","A">>, <<"n","/","a">>, <<"N","U","L","L">>, <<"n","u","l","l">>, <<"N","o","n","e">>}

ReadCsvCell(txt) == IF txt \in NA_VALUES THEN NaN ELSE txt

\* ----------------------------------------------------------------- centers
CENTER_IDS == <<"coll", "calvia", "alcudia", "santanyi">>

Centers == {CENTER_IDS[i] : i \in DOMAIN CENTER_IDS}

Almacen(c) ==
    CASE c = "coll"     -> <<"1">>
      [] c = "calvia"   -> <<"2">>
      [] c = "alcudia"  -> <<"3">>
      [] c = "santanyi" -> <<"4">>

ALMACEN_TO_CENTER == {<<"1">>, <<"2">>, <<"3">>, <<"4">>}

OUT_COLS == <<"NumeroArticulo", "ReferenciaProveedor", "Descripcion",
              "CodigoEAN", "NombreProveedor", "Precio", "Stock">>

\* an output file: absent, or the header and the rows of its text
NoFile == [exists |-> FALSE, cols |-> <<>>, rows |-> <<>>]

File(cols, rows) == [exists |-> TRUE, cols |-> cols, rows |-> rows]

HasCol(f, name) == \E i \in DOMAIN f.cols : f.cols[i] = name

\* an override file: absent, unparsable, or a JSON object of texts
NoOverride == [state |-> "absent", map |-> <<>>]

BadOverride == [state |-> "malformed", map |-> <<>>]

Override(m) == [state |-> "ok", map |-> m]

\* load_overrides_ean(center_id)
load_overrides_ean(o) == IF o.state = "ok" THEN o.map ELSE <<>>

\* --------------------------------------------------------------- variables
VARIABLES
    base, stock, provs,     \* the three source tables under imports/
    over,                   \* center -> overrides/ean/<center>.json
    files,                  \* center -> <center>/Articulos.csv
    pc, fail, run,          \* position in main, reason of the abort, runs started
    files0,                 \* the output files when the current run started
    col,                    \* the resolved column names
    df_base, st,            \* the article table and the grouped stock
    existing_ean,           \* center -> article -> barcode to keep
    ci,                     \* index of the center the loop is at
    escrito, changed_any,   \* center -> written in this run; any written
    fc_cols, fc_key, fc_res, fc_done   \* one call of find_col

envVars == <<base, stock, provs, over>>

runVars == <<files, pc, fail, run, files0, col, df_base, st, existing_ean, ci,
             escrito, changed_any>>

fcVars == <<fc_cols, fc_key, fc_res, fc_done>>

vars == <<envVars, runVars, fcVars>>

NoCols == [num |-> NoCol, ref |-> NoCol, desc |-> NoCol, ean |-> NoCol,
           precio |-> NoCol, nomprov_base |-> NoCol, codprov_base |-> NoCol,
           codprov_prov |-> NoCol, nomprov_prov |-> NoCol,
           num_s |-> NoCol, alm |-> NoCol, stk |-> NoCol]

\* ---------------------------------------------------------- steps of main
\* the order of the statements of main
StepAfter_EmitBeforeStock(p) ==
    CASE p = "read"    -> "resolve"
      [] p = "resolve" -> "base"
      [] p = "base"    -> "ean"
      [] p = "ean"     -> "emit"
      [] p = "emit"    -> "stock"
      [] p = "stock"   -> "finish"
      [] p = "finish"  -> "done"

StepAfter(p) ==
    CASE p = "read"    -> "resolve"
      [] p = "resolve" -> "base"
      [] p = "base"    -> "stock"
      [] p = "stock"   -> "ean"
      [] p = "ean"     -> "emit"
      [] p = "emit"    -> "finish"
      [] p = "finish"  -> "done"

Abort(reason) == pc' = "failed" /\ fail' = reason

\* a run starts: python scripts/build_data.py
StartRun ==
    /\ pc \in {"idle", "done"}
    /\ run < MaxRuns
    /\ run' = run + 1
    /\ pc' = "read"
    /\ fail' = "none"
    /\ files0' = files
    /\ col' = NoCols
    /\ df_base' = <<>>
    /\ st' = {}
    /\ existing_ean' = [c \in Centers |-> <<>>]
    /\ ci' = 1
    /\ escrito' = [c \in Centers |-> FALSE]
    /\ changed_any' = FALSE
    /\ UNCHANGED <<files, envVars, fcVars>>

\* 1) the three tables are read, in order; read_table raises RuntimeError
ReadTables ==
    /\ pc = "read"
    /\ IF base.ok /\ stock.ok /\ provs.ok
       THEN pc' = StepAfter("read") /\ fail' = fail
       ELSE Abort("unreadable")
    /\ UNCHANGED <<files, run, files0, col, df_base, st, existing_ean, ci,
                   escrito, changed_any, envVars, fcVars>>

\* 2) the columns each table is read through
Resolved ==
    LET bc  == normalize_cols(base.cols)
        sc  == normalize_cols(stock.cols)
        pcs == normalize_cols(provs.cols)
        nb  == NormCols(bc)
        nst == NormCols(sc)
        np  == NormCols(pcs)
        \* find_col(base, k), find_col(stock, k), find_col(provs, k)
        InBase(k)  == FindIn(bc, nb, k)
        InStock(k) == FindIn(sc, nst, k)
        InProvs(k) == FindIn(pcs, np, k)
        num == InBase("NumeroArticulo")
        ns  == InStock("NumeroArticulo")
    IN  [num |-> num,
         ref |-> InBase("ReferenciaProveedor"),
         desc |-> InBase("Descripcion"),
         ean |-> InBase("CodigoEAN"),
         precio |-> InBase("Precio"),
         nomprov_base |-> InBase("NombreProveedor"),
         codprov_base |-> InBase("CodigoProveedor"),
         codprov_prov |-> InProvs("CodigoProveedor"),
         nomprov_prov |-> InProvs("NombreProveedor"),
         num_s |-> IF ns # NoCol THEN ns ELSE num,
         alm |-> InStock("CodigoAlmacen"),
         stk |-> InStock("EnStock")]

\* the required keys of the articles table that resolved to nothing
MissingBase(c) ==
    {k \in {"num", "ref", "desc", "precio"} : c[k] = NoCol}

\* the required keys of the stock table that resolved to nothing
MissingStock(c) ==
    {k \in {"num_s", "alm", "stk"} : c[k] = NoCol}

ResolveColumns ==
    /\ pc = "resolve"
    /\ LET r == Resolved IN
       /\ col' = r
       /\ IF MissingBase(r) # {} \/ MissingStock(r) # {}
          THEN Abort("missing_columns")
          ELSE pc' = StepAfter("resolve") /\ fail' = fail
    /\ UNCHANGED <<files, run, files0, df_base, st, existing_ean, ci,
                   escrito, changed_any, envVars, fcVars>>

\* 3) the article table: one row per row of the articles source
BaseRow(bc, r) ==
    [NumeroArticulo      |-> StrStrip(r[ColIdx(bc, col.num)]),
     ReferenciaProveedor |-> StrStrip(r[ColIdx(bc, col.ref)]),
     Descripcion         |-> StrStrip(r[ColIdx(bc, col.desc)]),
     CodigoEAN           |-> IF col.ean # NoCol
                             THEN StrStrip(r[ColIdx(bc, col.ean)]) ELSE <<>>,
     \* the price stays a text: .fillna("") comes after astype(str)
     Precio              |-> Replace(StrStrip(r[ColIdx(bc, col.precio)]), ",", <<".">>),
     NombreProveedor     |-> IF col.nomprov_base # NoCol
                             THEN StrStrip(r[ColIdx(bc, col.nomprov_base)]) ELSE <<>>]

\* the supplier name is joined by code: merging m, which has a column
\* NombreProveedor, into df_base, which has one too, suffixes both
\* (_x, _y), and df_base["NombreProveedor"] raises KeyError
JoinsByCode ==
    /\ col.nomprov_base = NoCol
    /\ col.codprov_base # NoCol
    /\ col.codprov_prov # NoCol
    /\ col.nomprov_prov # NoCol

BuildBase ==
    /\ pc = "base"
    /\ LET bc == normalize_cols(base.cols) IN
       IF JoinsByCode
       THEN Abort("keyerror") /\ df_base' = df_base
       ELSE /\ df_base' = [i \in DOMAIN base.rows |-> BaseRow(bc, base.rows[i])]
            /\ pc' = StepAfter("base")
            /\ fail' = fail
    /\ UNCHANGED <<files, run, files0, col, st, existing_ean, ci,
                   escrito, changed_any, envVars, fcVars>>

\* 4) the stock per article and warehouse
RECURSIVE SumEnStock(_)
SumEnStock(rows) ==
    IF rows = <<>> THEN 0 ELSE Head(rows).EnStock + SumEnStock(Tail(rows))

\* groupby([NumeroArticulo, CodigoAlmacen]).sum() keeps the last row only
GroupSum_LastWins(rows) ==
    {[NumeroArticulo |-> rows[i].NumeroArticulo,
      CodigoAlmacen  |-> rows[i].CodigoAlmacen,
      EnStock        |-> rows[i].EnStock] :
        i \in {j \in DOMAIN rows :
                 \A k \in DOMAIN rows :
                    (/\ rows[k].NumeroArticulo = rows[j].NumeroArticulo
                     /\ rows[k].CodigoAlmacen = rows[j].CodigoAlmacen) => k <= j}}

\* groupby([NumeroArticulo, CodigoAlmacen], as_index=False)["EnStock"].sum()
GroupSum(rows) ==
    LET Same(i, r) == /\ r.NumeroArticulo = rows[i].NumeroArticulo
                      /\ r.CodigoAlmacen = rows[i].CodigoAlmacen
    IN  {[NumeroArticulo |-> rows[i].NumeroArticulo,
          CodigoAlmacen  |-> rows[i].CodigoAlmacen,
          EnStock        |-> LET Pick(r) == Same(i, r)
                             IN  SumEnStock(SelectSeq(rows, Pick))] :
            i \in DOMAIN rows}

StockRows ==
    LET sc     == normalize_cols(stock.cols)
        n      == ColIdx(sc, col.num_s)
        a      == ColIdx(sc, col.alm)
        q      == ColIdx(sc, col.stk)
        Full(r) == r[n] # NaN /\ r[a] # NaN /\ r[q] # NaN      \* dropna()
        Conv(r) == [NumeroArticulo |-> StrStrip(r[n]),
                    CodigoAlmacen  |-> StrStrip(r[a]),
                    EnStock        |-> to_int(r[q])]
        kept   == SelectSeq(stock.rows, Full)
        conv   == IF kept = <<>> THEN <<>> ELSE [i \in 1..Len(kept) |-> Conv(kept[i])]
        In14(r) == r.CodigoAlmacen \in ALMACEN_TO_CENTER
    IN  SelectSeq(conv, In14)

BuildStock ==
    /\ pc = "stock"
    /\ IF ColIdx(normalize_cols(stock.cols), col.num_s) = 0
       THEN Abort("keyerror") /\ st' = st
       ELSE /\ st' = GroupSum(StockRows)
            /\ pc' = StepAfter("stock")
            /\ fail' = fail
    /\ UNCHANGED <<files, run, files0, col, df_base, existing_ean, ci,
                   escrito, changed_any, envVars, fcVars>>

\* 5) the barcodes to keep: those of the center's own file, then the overrides
PrevNum(f, i) == PyStrip(AsStr(ReadCsvCell(f.rows[i]["NumeroArticulo"])))

PrevEan(f, i) ==
    IF HasCol(f, "CodigoEAN")
    THEN PyStrip(AsStr(ReadCsvCell(f.rows[i]["CodigoEAN"])))
    ELSE <<>>

\* m of lines 277-283: a later row of the file replaces an earlier one
PrevMap(f) ==
    IF f.exists /\ HasCol(f, "NumeroArticulo")
    THEN LET good == {i \in DOMAIN f.rows : PrevNum(f, i) # <<>> /\ PrevEan(f, i) # <<>>}
             keys == {PrevNum(f, i) : i \in good}
         IN  [k \in keys |->
                PrevEan(f, CHOOSE i \in good :
                              /\ PrevNum(f, i) = k
                              /\ \A j \in good : PrevNum(f, j) = k => j <= i)]
    ELSE <<>>

\* existing_ean[center].update({k: str(v).strip() for k, v in override.items()})
UpdateWith(m, o) ==
    [k \in (DOMAIN m) \cup (DOMAIN o) |->
        IF k \in DOMAIN o THEN PyStrip(o[k]) ELSE m[k]]

LoadEan ==
    /\ pc = "ean"
    /\ existing_ean' =
          [c \in Centers |-> UpdateWith(PrevMap(files[c]), load_overrides_ean(over[c]))]
    /\ pc' = StepAfter("ean")
    /\ fail' = fail
    /\ UNCHANGED <<files, run, files0, col, df_base, st, ci,
                   escrito, changed_any, envVars, fcVars>>

\* 6) one center's Articulos.csv
\* code points, in order, of the characters article numbers are written in
ORDER == <<" ", "-", ".", "0", "1", "2", "3", "4", "5", "6", "7", "8", "9",
           "A", "B", "C", "D", "E", "F", "G", "H", "I", "J", "K", "L", "M",
           "N", "O", "P", "Q", "R", "S", "T", "U", "V", "W", "X", "Y", "Z",
           "_", "a", "b", "c", "d", "e", "f", "g", "h", "i", "j", "k", "l",
           "m", "n", "o", "p", "q", "r", "s", "t", "u", "v", "w", "x", "y", "z">>

Ord(c) == CHOOSE i \in DOMAIN ORDER : ORDER[i] = c

\* a < b as Python compares str
RECURSIVE StrLess(_, _)
StrLess(a, b) ==
    IF b = <<>> THEN FALSE
    ELSE IF a = <<>> THEN TRUE
    ELSE IF Head(a) = Head(b) THEN StrLess(Tail(a), Tail(b))
    ELSE Ord(Head(a)) < Ord(Head(b))

\* pd.to_numeric(errors="coerce") of an article number: its value when it is
\* written in digits only, NaN otherwise (the numbers of the model carry no
\* sign, point or exponent)
ToNumeric(s) ==
    IF s # <<>> /\ \A i \in DOMAIN s : IsDigit(s[i])
    THEN [nan |-> FALSE, v |-> DigitsVal(s)]
    ELSE [nan |-> TRUE, v |-> 0]

\* the rows ordered as texts only
SortLess_TextOnly(r1, r2) == StrLess(r1.NumeroArticulo, r2.NumeroArticulo)

\* r1 before r2 under sort_values(by=["_sort", "NumeroArticulo"]), NaN last
SortLess(r1, r2) ==
    LET k1 == ToNumeric(r1.NumeroArticulo)
        k2 == ToNumeric(r2.NumeroArticulo)
    IN  IF k1.nan /\ k2.nan THEN StrLess(r1.NumeroArticulo, r2.NumeroArticulo)
        ELSE IF k1.nan THEN FALSE
        ELSE IF k2.nan THEN TRUE
        ELSE \/ k1.v < k2.v
             \/ k1.v = k2.v /\ StrLess(r1.NumeroArticulo, r2.NumeroArticulo)

\* a stable sort: rows with equal keys keep their order
RECURSIVE SortRows(_)
SortRows(rows) ==
    IF rows = <<>> THEN <<>>
    ELSE LET s == SortRows(SubSeq(rows, 1, Len(rows) - 1))
             r == rows[Len(rows)]
             k == Cardinality({i \in DOMAIN s : ~SortLess(r, s[i])})
         IN  SubSeq(s, 1, k) \o <<r>> \o SubSeq(s, k + 1, Len(s))

\* the Stock column after the left merge: the group's sum, or NaN
Merged(num, alm_code) ==
    LET hit == {r \in st : r.NumeroArticulo = num /\ r.CodigoAlmacen = alm_code}
    IN  IF hit = {} THEN [na |-> TRUE, v |-> 0]
        ELSE [na |-> FALSE, v |-> (CHOOSE r \in hit : TRUE).EnStock]

\* the column is written as pandas holds it: a float once a row is NaN
StockCell_NoCoercion(m, anyNa) ==
    IF anyNa THEN FloatStr(m.v) ELSE IntStr(m.v)

\* fillna(0).map(to_int), map(int), and the text to_csv writes
StockCell(m, anyNa) ==
    LET held == IF anyNa THEN FloatStr(m.v) ELSE IntStr(m.v)
    IN  IntStr(to_int(held))

\* the barcode of a row: the kept one when there is a non-empty one
Barcode(keep, r) ==
    IF r.NumeroArticulo \in DOMAIN keep /\ keep[r.NumeroArticulo] # <<>>
    THEN keep[r.NumeroArticulo]
    ELSE PyStrip(r.CodigoEAN)

OutRows(c) ==
    LET keep  == existing_ean[c]
        anyNa == \E i \in DOMAIN df_base :
                     Merged(df_base[i].NumeroArticulo, Almacen(c)).na
        Row(r) == [NumeroArticulo      |-> r.NumeroArticulo,
                   ReferenciaProveedor |-> r.ReferenciaProveedor,
                   Descripcion         |-> r.Descripcion,
                   CodigoEAN           |-> Barcode(keep, r),
                   NombreProveedor     |-> r.NombreProveedor,
                   Precio              |-> r.Precio,
                   Stock               |-> StockCell(Merged(r.NumeroArticulo, Almacen(c)),
                                                     anyNa)]
    IN  SortRows(IF df_base = <<>> THEN <<>>
                 ELSE [i \in 1..Len(df_base) |-> Row(df_base[i])])

EmitCenter ==
    /\ pc = "emit"
    /\ LET c       == CENTER_IDS[ci]
           csv_new == File(OUT_COLS, OutRows(c))
           differs == files[c] # csv_new
       IN  /\ files' = IF differs THEN [files EXCEPT ![c] = csv_new] ELSE files
           /\ escrito' = [escrito EXCEPT ![c] = differs]
           /\ changed_any' = (changed_any \/ differs)
    /\ ci' = ci + 1
    /\ pc' = IF ci = Len(CENTER_IDS) THEN StepAfter("emit") ELSE "emit"
    /\ UNCHANGED <<fail, run, files0, col, df_base, st, existing_ean, envVars, fcVars>>

\* the closing messages
Finish ==
    /\ pc = "finish"
    /\ pc' = StepAfter("finish")
    /\ UNCHANGED <<files, fail, run, files0, col, df_base, st, existing_ean, ci,
                   escrito, changed_any, envVars, fcVars>>

\* find_col on its own
ResolveOne ==
    /\ ~fc_done
    /\ fc_cols # <<>>
    /\ fc_res' = find_col(normalize_cols(fc_cols), fc_key)
    /\ fc_done' = TRUE
    /\ UNCHANGED <<fc_cols, fc_key, envVars, runVars>>

Next ==
    \/ StartRun
    \/ ReadTables
    \/ ResolveColumns
    \/ BuildBase
    \/ BuildStock
    \/ LoadEan
    \/ EmitCenter
    \/ Finish

\* ------------------------------------------------------------ input tables
\* all sequences over S of length lo..hi
SeqsBetween(S, lo, hi) == UNION {[1..n -> S] : n \in lo..hi}

\* article rows as the articles source carries them
ART_WIDGET == [num |-> <<"2">>, ref |-> <<"R","2">>, desc |-> <<"W","i","d","g","e","t">>, ean |-> <<"A">>,
               precio |-> <<"1","2",",","5","0">>, prov |-> <<"A","c","m","e">>]

ART_ANCHOR == [num |-> <<"1","0">>, ref |-> <<"R","1","0">>, desc |-> <<"A","n","c","h","o","r">>, ean |-> NaN,
               precio |-> <<"a","b","c">>, prov |-> NaN]

ART_BOLT == [num |-> <<" ","A","1"," ">>, ref |-> <<"R","A">>, desc |-> <<"B","o","l","t">>, ean |-> <<" ">>,
             precio |-> NaN, prov |-> <<"A","c","m","e">>]

ART_ZIP == [num |-> <<"2">>, ref |-> <<"R","2","b">>, desc |-> <<"Z","i","p">>, ean |-> <<"B">>,
            precio |-> <<"7">>, prov |-> <<"B","e","s","t">>]

ArticleSamples == {ART_WIDGET, ART_ANCHOR, ART_BOLT, ART_ZIP}

\* header rows of the articles source: <<header, the field under it>>
HV_FULL == << <<<<"A","r","t","i","c","u","l","o">>, "num">>, <<<<" ","R","e","f","e","r","e","n","c","i","a"," ">>, "ref">>,
              <<<<"D","e","s","c","r","i","p","c","i","o'","n">>, "desc">>, <<<<"E","A","N">>, "ean">>,
              <<<<"P","r","e","c","i","o">>, "precio">>, <<<<"P","r","o","v","e","e","d","o","r">>, "prov">> >>

HV_NOEAN == << <<<<"C","o'","d","i","g","o">>, "num">>, <<<<"R","e","f","."," ","F","a","b","r","i","c","a","n","t","e">>, "ref">>,
               <<<<"N","o","m","b","r","e">>, "desc">>, <<<<"P","V","P">>, "precio">> >>

HV_NOPRICE == << <<<<"A","r","t","i","c","u","l","o">>, "num">>, <<<<"R","e","f","e","r","e","n","c","i","a">>, "ref">>,
                 <<<<"D","e","s","c","r","i","p","c","i","o","n">>, "desc">>, <<<<"E","A","N">>, "ean">> >>

MkBase(hv, arts) ==
    Table([j \in 1..Len(hv) |-> hv[j][1]],
          [i \in 1..Len(arts) |-> [j \in 1..Len(hv) |-> arts[i][hv[j][2]]]])

STOCK_COLS == <<<<"A","r","t","i","c","u","l","o">>, <<"A","l","m","a","c","e","n">>, <<" ","E","n"," ","S","t","o","c","k">>>>

MkStock(rows) == Table(STOCK_COLS, rows)

\* stock rows: article, warehouse, quantity
StockSamples ==
    { <<<<"2">>, <<"1">>, <<"5">>>>,
      <<<<" ","2"," ">>, <<" ","1"," ">>, <<"3">>>>,
      <<<<"2">>, <<"2">>, <<"-","4">>>>,
      <<<<"1","0">>, <<"1">>, <<"1","2",".","0"," ","u","d","s">>>>,
      <<<<"1","0">>, <<"1">>, <<"2",",","5">>>>,
      <<<<"2">>, <<"9">>, <<"7">>>>,
      <<<<"2">>, <<"1">>, NaN>>,
      <<<<"A","1">>, <<"3">>, <<"x">>>> }

STOCK_OK == MkStock(<< <<<<"2">>, <<"1">>, <<"5">>>>, <<<<"2">>, <<"1">>, <<"3">>>>, <<<<"1","0">>, <<"2">>, <<"-","4">>>> >>)

\* no header resolves to the warehouse code
STOCK_NOALM == Table(<<<<"A","r","t","i","c","u","l","o">>, <<"S","t","o","c","k">>>>, << <<<<"2">>, <<"5">>>> >>)

\* no header resolves to the article number: the name found in the articles
\* source is used, and the stock source has no such column
STOCK_NOART == Table(<<<<"R","e","f">>, <<"A","l","m","a","c","e","n">>, <<"S","t","o","c","k">>>>, << <<<<"2">>, <<"1">>, <<"5">>>> >>)

PROVS_OK == Table(<<<<"C","o","d"," ","P","r","o","v","e","e","d","o","r">>, <<"N","o","m","b","r","e"," ","P","r","o","v","e","e","d","o","r">>>>,
                  << <<<<"P","1">>, <<"A","c","m","e">>>>, <<<<"P","1">>, <<"A","c","m","e"," ","S","L">>>> >>)

\* a row of an output file
OutRow(num, desc, ean, stk) ==
    [NumeroArticulo |-> num, ReferenciaProveedor |-> <<"R","2">>, Descripcion |-> desc,
     CodigoEAN |-> ean, NombreProveedor |-> <<>>, Precio |-> <<"1","2",".","5","0">>, Stock |-> stk]

PRIOR_B == File(OUT_COLS, << OutRow(<<"2">>, <<"W","i","d","g","e","t">>, <<"B">>, <<"0">>) >>)

PRIOR_BLANK == File(OUT_COLS, << OutRow(<<"2">>, <<"W","i","d","g","e","t">>, <<>>, <<"0">>) >>)

OVR_C == Override([k \in {<<"2">>} |-> <<"C">>])

OVR_EMPTY == Override([k \in {<<"2">>} |-> <<" ">>])

\* -------------------------------------------------------------- the starts
RunIdle ==
    /\ pc = "idle"
    /\ fail = "none"
    /\ run = 0
    /\ files0 = files
    /\ col = NoCols
    /\ df_base = <<>>
    /\ st = {}
    /\ existing_ean = [c \in Centers |-> <<>>]
    /\ ci = 1
    /\ escrito = [c \in Centers |-> FALSE]
    /\ changed_any = FALSE

FcIdle ==
    /\ fc_cols = <<>>
    /\ fc_key = "NumeroArticulo"
    /\ fc_res = NoCol
    /\ fc_done = FALSE

\* any articles source, with good stock and suppliers; or one articles source
\* with any stock and suppliers source
Init ==
    /\ \/ /\ base \in {MkBase(hv, arts) :
                         hv \in {HV_FULL, HV_NOEAN, HV_NOPRICE},
                         arts \in SeqsBetween(ArticleSamples, 1, MaxArticles)}
                      \cup {Unreadable}
          /\ stock = STOCK_OK
          /\ provs = PROVS_OK
       \/ /\ base = MkBase(HV_FULL, <<ART_WIDGET>>)
          /\ stock \in {STOCK_OK, STOCK_NOALM, STOCK_NOART, Unreadable}
          /\ provs \in {PROVS_OK, Unreadable}
    /\ over = [c \in Centers |-> NoOverride]
    /\ files \in {[c \in Centers |-> NoFile], [c \in Centers |-> PRIOR_B]}
    /\ RunIdle
    /\ FcIdle

Spec == Init /\ [][Next]_vars

\* any stock source, for three articles
InitStock ==
    /\ base = MkBase(HV_NOEAN, <<ART_WIDGET, ART_ANCHOR, ART_BOLT>>)
    /\ stock \in {MkStock(rows) : rows \in SeqsBetween(StockSamples, 0, MaxStockRows)}
    /\ provs = PROVS_OK
    /\ over = [c \in Centers |-> NoOverride]
    /\ files = [c \in Centers |-> NoFile]
    /\ RunIdle
    /\ FcIdle

SpecStock == InitStock /\ [][Next]_vars

\* one article; any barcode on its row, in each center's file and override
EanArticles ==
    { MkBase(HV_FULL, <<ART_WIDGET>>),
      MkBase(HV_NOEAN, <<ART_WIDGET>>),
      MkBase(HV_FULL, <<[ART_WIDGET EXCEPT !.ean = NaN]>>) }

InitEan ==
    /\ base \in EanArticles
    /\ stock = STOCK_OK
    /\ provs = PROVS_OK
    /\ \E o1, o2 \in {NoOverride, OVR_C, OVR_EMPTY}, o3 \in {NoOverride, BadOverride} :
          over = [c \in Centers |->
                    IF c = "coll" THEN o1 ELSE IF c = "calvia" THEN o2 ELSE o3]
    /\ \E f1, f2 \in {NoFile, PRIOR_B, PRIOR_BLANK} :
          files = [c \in Centers |->
                     IF c = "coll" THEN f1 ELSE IF c = "calvia" THEN f2 ELSE NoFile]
    /\ RunIdle
    /\ FcIdle

SpecEan == InitEan /\ [][Next]_vars

\* header rows find_col is asked about
HeaderSamples ==
    { <<"P","r","e","c","i","o"," ","C","o","s","t","e">>, <<"1","."," ","L","i","s","t","a"," ","P","r","e","c","i","o"," ","d","e"," ","V","e","n","t","a","s">>, <<"P","V","P">>, <<"C","o","d","."," ","B","a","r","r","a","s">>,
      <<"C","o'","d","i","g","o">>, <<"C","o","d","i","g","o"," ","A","l","m","a","c","e","n">>, <<"D","e","s","c","r","i","p","c","i","o'","n"," ","A","r","t","i'","c","u","l","o">>, <<" ","S","t","o","c","k">> }

InitFindCol ==
    /\ base = Unreadable
    /\ stock = Unreadable
    /\ provs = Unreadable
    /\ over = [c \in Centers |-> NoOverride]
    /\ files = [c \in Centers |-> NoFile]
    /\ RunIdle
    /\ fc_cols \in SeqsBetween(HeaderSamples, 1, MaxCols)
    /\ fc_key \in KEYS
    /\ fc_res = NoCol
    /\ fc_done = FALSE

NextFindCol == ResolveOne

SpecFindCol == InitFindCol /\ [][NextFindCol]_vars

\* ------------------------------------------------------------------ claims
CenterIdx(c) == CHOOSE i \in DOMAIN CENTER_IDS : CENTER_IDS[i] = c

\* the loop of the current run is past center c: its file holds this run's rows
Emitted(c) == ci > CenterIdx(c)

Rows(c) == files[c].rows

\* a cell of the articles source, and of the stock source, by column name
FeedCell(j, name) == base.rows[j][ColIdx(normalize_cols(base.cols), name)]

StockCellAt(i, name) == stock.rows[i][ColIdx(normalize_cols(stock.cols), name)]

\* the article number and the barcode of row j of the articles source
FeedNum(j) == StrStrip(FeedCell(j, col.num))

FeedEan(j) == IF col.ean = NoCol THEN <<>> ELSE StrStrip(FeedCell(j, col.ean))

\* the non-empty barcode the center's file held for the article when the run
\* started, <<>> when it held none
PriorBarcode(c, id) ==
    LET f    == files0[c]
        good == {i \in DOMAIN f.rows :
                   /\ PyStrip(f.rows[i]["NumeroArticulo"]) = id
                   /\ PyStrip(f.rows[i]["CodigoEAN"]) # <<>>}
    IN  IF f.exists /\ HasCol(f, "NumeroArticulo") /\ HasCol(f, "CodigoEAN") /\ good # {}
        THEN PyStrip(f.rows[CHOOSE i \in good : \A j \in good : j <= i]["CodigoEAN"])
        ELSE <<>>

HasOverrideKey(c, id) == id \in DOMAIN load_overrides_ean(over[c])

\* the center's override for the article, <<>> when it has none
OverrideValue(c, id) ==
    IF HasOverrideKey(c, id) THEN PyStrip(load_overrides_ean(over[c])[id]) ELSE <<>>

\* C1: in every center's output, each row's barcode is the center's non-empty
\* override for the article, else the non-empty barcode of the center's prior
\* file, else the barcode of the article's row in the feed, else empty.
C1_BarcodePrecedence ==
    \A c \in Centers : Emitted(c) =>
        \A i \in DOMAIN Rows(c) :
            LET id == Rows(c)[i].NumeroArticulo IN
            \E j \in DOMAIN base.rows :
                /\ FeedNum(j) = id
                /\ Rows(c)[i].CodigoEAN =
                      IF OverrideValue(c, id) # <<>> THEN OverrideValue(c, id)
                      ELSE IF PriorBarcode(c, id) # <<>> THEN PriorBarcode(c, id)
                      ELSE FeedEan(j)

\* C2: where the center's override holds the article with an empty value, the
\* row's barcode is what it is without the override: the prior file's
\* non-empty barcode, else the feed's.
C2_EmptyOverrideIsNoOpinion ==
    \A c \in Centers : Emitted(c) =>
        \A i \in DOMAIN Rows(c) :
            LET id == Rows(c)[i].NumeroArticulo IN
            (HasOverrideKey(c, id) /\ OverrideValue(c, id) = <<>>) =>
                \E j \in DOMAIN base.rows :
                    /\ FeedNum(j) = id
                    /\ Rows(c)[i].CodigoEAN =
                          IF PriorBarcode(c, id) # <<>> THEN PriorBarcode(c, id)
                          ELSE FeedEan(j)

\* C3: a second run over the same sources and overrides writes no center's
\* file and leaves every file as the first run left it.
C3_SecondRunWritesNothing ==
    (run >= 2 /\ pc = "done") =>
        /\ \A c \in Centers : ~escrito[c]
        /\ ~changed_any
        /\ files = files0

\* the sum of the coerced quantities of the stock rows of article id in the
\* warehouse of center c, over the first n rows of the stock source
RECURSIVE DirectStock(_, _, _)
DirectStock(n, id, c) ==
    IF n = 0 THEN 0
    ELSE DirectStock(n - 1, id, c) +
         (IF /\ StockCellAt(n, col.num_s) # NaN
             /\ StockCellAt(n, col.alm) # NaN
             /\ PyStrip(StockCellAt(n, col.num_s)) = id
             /\ PyStrip(StockCellAt(n, col.alm)) = Almacen(c)
          THEN to_int(StockCellAt(n, col.stk)) ELSE 0)

\* C4: every article of the feed has a row in every center's output, and the
\* row's Stock is the sum of the coerced quantities of the stock rows of that
\* article and that center's warehouse (0 without one); no stock row aborts
\* the run.
C4_StockIsSumPerWarehouse ==
    /\ pc # "failed"
    /\ \A c \in Centers : Emitted(c) =>
          /\ \A j \in DOMAIN base.rows :
                \E i \in DOMAIN Rows(c) : Rows(c)[i].NumeroArticulo = FeedNum(j)
          /\ \A i \in DOMAIN Rows(c) :
                Rows(c)[i].Stock =
                    IntStr(DirectStock(Len(stock.rows), Rows(c)[i].NumeroArticulo, c))

\* two stock rows of one article and warehouse were added: 5 + 3
C4_Witness ==
    /\ pc = "done"
    /\ Len(stock.rows) >= 2
    /\ \E i \in DOMAIN Rows("coll") :
          Rows("coll")[i].NumeroArticulo = <<"2">> /\ Rows("coll")[i].Stock = <<"8">>

\* C5: a run that aborts leaves every center's file as it was when the run
\* started.
C5_AbortWritesNothing == pc = "failed" => files = files0

\* a run aborted on an unreadable source or an unresolved column, with
\* output files on disk
C5_Witness ==
    /\ pc = "failed"
    /\ fail \in {"unreadable", "missing_columns"}
    /\ \E c \in Centers : files[c].exists

\* C6: no article number is on two rows of one center's output.
C6_OneRowPerArticle ==
    \A c \in Centers : Emitted(c) =>
        \A i, j \in DOMAIN Rows(c) :
            i # j => Rows(c)[i].NumeroArticulo # Rows(c)[j].NumeroArticulo

\* an integer numeral: an optional minus sign, then digits only
IsIntNumeral(s) ==
    LET b == IF s # <<>> /\ Head(s) = "-" THEN Tail(s) ELSE s IN
    b # <<>> /\ \A i \in DOMAIN b : IsDigit(b[i])

\* the stock rows of article id in the warehouse of center c
StockRowsOf(id, c) ==
    {n \in DOMAIN stock.rows :
        /\ StockCellAt(n, col.num_s) # NaN
        /\ StockCellAt(n, col.alm) # NaN
        /\ PyStrip(StockCellAt(n, col.num_s)) = id
        /\ PyStrip(StockCellAt(n, col.alm)) = Almacen(c)}

HasNoDigit(cell) == cell = NaN \/ \A i \in DOMAIN cell : ~IsDigit(cell[i])

IsTwoDecimals(s) ==
    /\ Len(s) >= 4
    /\ s[Len(s) - 2] = "."
    /\ \A i \in DOMAIN s : i # Len(s) - 2 => IsDigit(s[i])

PriceParses(cell) == cell # NaN /\ FloatOk(Replace(PyStrip(cell), ",", <<".">>))

\* C8: every Price written has two fractional digits, and is 0.00 where the
\* feed's price is missing or no number.
C8_PriceTwoDecimals ==
    \A c \in Centers : Emitted(c) =>
        \A i \in DOMAIN Rows(c) :
            /\ IsTwoDecimals(Rows(c)[i].Precio)
            /\ \E j \in DOMAIN base.rows :
                  /\ FeedNum(j) = Rows(c)[i].NumeroArticulo
                  /\ ~PriceParses(FeedCell(j, col.precio)) => Rows(c)[i].Precio = <<"0",".","0","0">>

\* r1 before r2 by Description, then by article number
DescLess(r1, r2) ==
    \/ StrLess(r1.Descripcion, r2.Descripcion)
    \/ /\ r1.Descripcion = r2.Descripcion
       /\ StrLess(r1.NumeroArticulo, r2.NumeroArticulo)

\* C9, as claimed: the rows of every output are ordered by Description, then
\* by article number.
C9_OrderedByDescription ==
    \A c \in Centers : Emitted(c) =>
        \A i, j \in DOMAIN Rows(c) : i < j => ~DescLess(Rows(c)[j], Rows(c)[i])

\* a before b: numbers by value before every text that is no number, equal
\* values and texts that are no numbers by their characters
NumberThenText(a, b) ==
    LET IsNum(s) == s # <<>> /\ \A i \in DOMAIN s : IsDigit(s[i]) IN
    IF IsNum(a) /\ IsNum(b)
    THEN DigitsVal(a) < DigitsVal(b) \/ (DigitsVal(a) = DigitsVal(b) /\ StrLess(a, b))
    ELSE IF IsNum(a) # IsNum(b) THEN IsNum(a)
    ELSE StrLess(a, b)

\* C9, amended: the rows of every output are ordered by the value of the
\* article number, the numbers that are no numbers last, then by its text;
\* rows of different article numbers stand in that order whatever the feed's.
C9_OrderedByArticleNumber ==
    \A c \in Centers : Emitted(c) =>
        \A i, j \in DOMAIN Rows(c) : i < j =>
            \/ Rows(c)[i].NumeroArticulo = Rows(c)[j].NumeroArticulo
            \/ NumberThenText(Rows(c)[i].NumeroArticulo, Rows(c)[j].NumeroArticulo)

\* article 2 is written before article 10, though "Anchor" sorts before "Widget"
C9_Witness ==
    /\ Emitted("coll")
    /\ \E i, j \in DOMAIN Rows("coll") :
          /\ i < j
          /\ Rows("coll")[i].NumeroArticulo = <<"2">>
          /\ Rows("coll")[j].NumeroArticulo = <<"1","0">>
          /\ DescLess(Rows("coll")[j], Rows("coll")[i])

\* C10: when a header's normalised form equals the normalised form of an
\* alias of the field, find_col returns the first such header.
C10_ExactMatchFirst ==
    fc_done =>
        LET nc == normalize_cols(fc_cols)
            eq == {i \in DOMAIN nc : \E w \in ALIAS(fc_key) : strip(nc[i]) = strip(w)}
        IN  eq # {} => fc_res = nc[CHOOSE i \in eq : \A j \in eq : i <= j]

====
